---- MODULE Spec2Model ----
(***************************************************************************)
(* A model of submodules/Pplan/utils/geometry_utils.py: the batched        *)
(* geometric helpers of the planner (angle wrapping, point transforms,     *)
(* Frenet projection, box corners, pairwise collision metrics and the      *)
(* drivable-area distance field).                                          *)
(*                                                                         *)
(* Every function of the file is a synchronous call.  A call is modelled   *)
(* as: Init draws the arguments, one action runs the function's body and   *)
(* stores what it returns or raises in `ret`.  calc_distance_map, the one  *)
(* function with a loop that updates a buffer in place, is modelled        *)
(* statement by statement with its buffer `out` and loop counter `i`.      *)
(*                                                                         *)
(* Numbers.  Angles are integer multiples of a quarter turn (pi = 2        *)
(* units), for which sin and cos are exactly -1, 0 or 1; lengths are       *)
(* integers in a fixed sub-unit chosen per function so that every 0.5 and  *)
(* 0.3 of the source is an integer.  Norms are compared by their squares.  *)
(***************************************************************************)
EXTENDS Integers, Sequences, FiniteSets, TLC

VARIABLES
    fn,     \* the function being called
    args,   \* its arguments
    pc,     \* position in the call: "call", a line label, or "done"
    ret,    \* what the call returned or raised (Pending before it ends)
    out,    \* calc_distance_map: the field buffer `out`
    i       \* calc_distance_map: the loop counter `i`

vars == <<fn, args, pc, ret, out, i>>

\* the call has not ended yet
Pending == [kind |-> "pending"]
\* Python's None, the value of a function that ends without a return statement
PyNone == "None"
Return(v) == [kind |-> "return", value |-> v]
Raise(e) == [kind |-> "raise", error |-> e]

Min(a, b) == IF a <= b THEN a ELSE b
Max(a, b) == IF a >= b THEN a ELSE b
Abs(a) == IF a >= 0 THEN a ELSE -a

(***************************************************************************)
(* Angles, in quarter turns: np.pi is 2 units.                             *)
(***************************************************************************)
PI == 2

\* torch.cos / np.cos and torch.sin / np.sin of a whole number of quarter turns
Cos(a) == CASE (a % 4) = 0 -> 1 [] (a % 4) = 2 -> -1 [] OTHER -> 0
Sin(a) == CASE (a % 4) = 1 -> 1 [] (a % 4) = 3 -> -1 [] OTHER -> 0

\* round_2pi without the final "- np.pi"
round_2pi_NoShiftBack(x) == (x + PI) % (2 * PI)

\* (x + np.pi) % (2 * np.pi) - np.pi ; Python's % takes the sign of the divisor
round_2pi(x) == ((x + PI) % (2 * PI)) - PI

MaxAngle == 50

InitRound2pi ==
    /\ fn = "round_2pi"
    /\ \E x \in (-MaxAngle)..MaxAngle : args = [x |-> x]
    /\ pc = "call"
    /\ ret = Pending
    /\ out = <<>>
    /\ i = 0

Call_round_2pi ==
    /\ fn = "round_2pi" /\ pc = "call"
    /\ ret' = Return(round_2pi(args.x))
    /\ pc' = "done"
    /\ UNCHANGED <<fn, args, out, i>>

SpecRound2pi == InitRound2pi /\ [][Call_round_2pi]_vars

\* C8 as stated: the result lies in (-pi, pi].
C8_HalfOpenAbove ==
    (pc = "done" /\ fn = "round_2pi") => (-PI < ret.value /\ ret.value <= PI)

\* C8 amended: the result lies in [-pi, pi) and differs from x by a whole number
\* of turns; an odd multiple of pi is sent to -pi.
C8_HalfOpenBelow ==
    (pc = "done" /\ fn = "round_2pi") =>
        /\ -PI <= ret.value /\ ret.value < PI
        /\ ((ret.value - args.x) % (2 * PI)) = 0
        /\ ((args.x % (2 * PI)) = PI) => (ret.value = -PI)

\* an odd multiple of pi other than +-pi was wrapped
C8_Witness ==
    /\ pc = "done" /\ fn = "round_2pi"
    /\ args.x = 3 * PI
    /\ ret.value = -PI

(***************************************************************************)
(* get_box_world_coords(pos, yaw, extent), in half length units: the 0.5   *)
(* of the corner table is 1.                                               *)
(***************************************************************************)
MaxBoxPos == 2
MaxExtent == 2

\* torch.tensor([[-1, -1], [-1, 1], [1, 1], [1, -1]])
CornerSigns == << <<-1, -1>>, <<-1, 1>>, <<1, 1>>, <<1, -1>> >>

\* v @ [[c, s], [-s, c]]
TimesRotM(v, c, s) == <<v[1] * c - v[2] * s, v[1] * s + v[2] * c>>

get_box_world_coords(pos, yaw, extent) ==
    LET corners == [k \in 1..4 |->
                      <<CornerSigns[k][1] * extent[1], CornerSigns[k][2] * extent[2]>>]
        s == Sin(yaw)
        c == Cos(yaw)
    IN  [k \in 1..4 |->
            TimesRotM(<<corners[k][1] + 2 * pos[1], corners[k][2] + 2 * pos[2]>>, c, s)]

InitBox ==
    /\ fn = "get_box_world_coords"
    /\ \E px \in (-MaxBoxPos)..MaxBoxPos, py \in (-MaxBoxPos)..MaxBoxPos,
          yaw \in 0..(2 * PI - 1), ex \in 1..MaxExtent, ey \in 1..MaxExtent :
           args = [pos |-> <<px, py>>, yaw |-> yaw, extent |-> <<ex, ey>>]
    /\ pc = "call"
    /\ ret = Pending
    /\ out = <<>>
    /\ i = 0

Call_get_box_world_coords ==
    /\ fn = "get_box_world_coords" /\ pc = "call"
    /\ ret' = Return(get_box_world_coords(args.pos, args.yaw, args.extent))
    /\ pc' = "done"
    /\ UNCHANGED <<fn, args, out, i>>

SpecBox == InitBox /\ [][Call_get_box_world_coords]_vars

\* C4: for every yaw the four corners are the extent-scaled corners rotated about
\* the box's own centre and moved to pos: their centroid is pos and each lies at
\* distance |extent|/2 from pos.
C4_BoxCentredOnPos ==
    (pc = "done" /\ fn = "get_box_world_coords") =>
        LET b == ret.value
            p == <<2 * args.pos[1], 2 * args.pos[2]>>
        IN  /\ b[1][1] + b[2][1] + b[3][1] + b[4][1] = 4 * p[1]
            /\ b[1][2] + b[2][2] + b[3][2] + b[4][2] = 4 * p[2]
            /\ \A k \in 1..4 :
                  (b[k][1] - p[1]) * (b[k][1] - p[1]) + (b[k][2] - p[2]) * (b[k][2] - p[2])
                  = args.extent[1] * args.extent[1] + args.extent[2] * args.extent[2]
            /\ \A k \in 1..4 :
                  <<b[k][1] - p[1], b[k][2] - p[2]>>
                  = TimesRotM(<<CornerSigns[k][1] * args.extent[1],
                                CornerSigns[k][2] * args.extent[2]>>,
                              Cos(args.yaw), Sin(args.yaw))


(***************************************************************************)
(* Containers.  An argument is a torch.Tensor, a np.ndarray, or something  *)
(* else: a Python list (no .shape, no .ndim, no tuple subscript) or a      *)
(* numpy scalar such as np.float64 (has .shape == () and .ndim == 0 but is *)
(* no np.ndarray).  `v` holds the numbers, `shape` their layout.           *)
(***************************************************************************)
SupportedKinds == {"tensor", "ndarray"}
OtherKinds == {"list", "npscalar"}
Kinds == SupportedKinds \cup OtherKinds

Container(kind, shape, v) == [kind |-> kind, shape |-> shape, v |-> v]

\* isinstance(x, torch.Tensor) / isinstance(x, np.ndarray)
IsTensor(x) == x.kind = "tensor"
IsNdarray(x) == x.kind = "ndarray"

\* the object has the attributes .shape and .ndim
HasArrayAttrs(x) == x.kind \in {"tensor", "ndarray", "npscalar"}

\* what a branch raises at the first use of an operand that is not of the branch's
\* kind: list[..., k] is a TypeError, a subscript of a numpy scalar an IndexError
\* (an operand of the other supported kind does not occur in the calls modelled)
OperandError(x) == IF x.kind = "npscalar" THEN "IndexError" ELSE "TypeError"

(***************************************************************************)
(* batch_proj(x, line): the second definition of the file, the one the     *)
(* module binds.  x: [B,3], line: [B,N,3].                                 *)
(***************************************************************************)

\* argmin returning the last of several minimal entries
RECURSIVE ArgminLastFrom(_, _, _)
ArgminLastFrom(d, n, best) ==
    IF n > Len(d) THEN best
    ELSE ArgminLastFrom(d, n + 1, IF d[n] <= d[best] THEN n ELSE best)
ArgminLast(d) == ArgminLastFrom(d, 2, 1)

\* torch.argmin / np.argmin along the last axis: the first minimal entry
RECURSIVE ArgminFrom(_, _, _)
ArgminFrom(d, n, best) ==
    IF n > Len(d) THEN best
    ELSE ArgminFrom(d, n + 1, IF d[n] < d[best] THEN n ELSE best)
argmin(d) == ArgminFrom(d, 2, 1)

\* torch.linalg.norm(delta, axis=-1), as the square it is the root of
SquaredNorm(dx, dy) == dx * dx + dy * dy

\* lines 307-338: the torch branch
batch_proj_torch(x, line) ==
    LET B == Len(x)
        line_length == Len(line[1])
        delta == [b \in 1..B |-> [n \in 1..line_length |->
                    <<line[b][n][1] - x[b][1], line[b][n][2] - x[b][2]>>]]
        dis == [b \in 1..B |-> [n \in 1..line_length |->
                    SquaredNorm(delta[b][n][1], delta[b][n][2])]]
        idx0 == [b \in 1..B |-> argmin(dis[b])]
        line_min == [b \in 1..B |-> line[b][idx0[b]]]
        dx == [b \in 1..B |-> [n \in 1..line_length |-> x[b][1] - line[b][n][1]]]
        dy == [b \in 1..B |-> [n \in 1..line_length |-> x[b][2] - line[b][n][2]]]
        delta_y == [b \in 1..B |-> [n \in 1..line_length |->
                    (-dx[b][n]) * Sin(line_min[b][3]) + dy[b][n] * Cos(line_min[b][3])]]
        delta_x == [b \in 1..B |-> [n \in 1..line_length |->
                    dx[b][n] * Cos(line_min[b][3]) + dy[b][n] * Sin(line_min[b][3])]]
        delta_psi == [b \in 1..B |-> round_2pi(x[b][3] - line_min[b][3])]
    IN  << Container("tensor", <<B, line_length>>, delta_x),
           Container("tensor", <<B, line_length>>, delta_y),
           Container("tensor", <<B, 1>>, [b \in 1..B |-> <<delta_psi[b]>>]) >>

\* lines 340-363: the numpy branch
batch_proj_numpy(x, line) ==
    LET B == Len(x)
        line_length == Len(line[1])
        delta == [b \in 1..B |-> [n \in 1..line_length |->
                    <<line[b][n][1] - x[b][1], line[b][n][2] - x[b][2]>>]]
        dis == [b \in 1..B |-> [n \in 1..line_length |->
                    SquaredNorm(delta[b][n][1], delta[b][n][2])]]
        idx0 == [b \in 1..B |-> argmin(dis[b])]
        line_min == [b \in 1..B |-> line[b][idx0[b]]]
        dx == [b \in 1..B |-> [n \in 1..line_length |-> x[b][1] - line[b][n][1]]]
        dy == [b \in 1..B |-> [n \in 1..line_length |-> x[b][2] - line[b][n][2]]]
        delta_y == [b \in 1..B |-> [n \in 1..line_length |->
                    (-dx[b][n]) * Sin(line_min[b][3]) + dy[b][n] * Cos(line_min[b][3])]]
        delta_x == [b \in 1..B |-> [n \in 1..line_length |->
                    dx[b][n] * Cos(line_min[b][3]) + dy[b][n] * Sin(line_min[b][3])]]
        delta_psi == [b \in 1..B |-> round_2pi(x[b][3] - line_min[b][3])]
    IN  << Container("ndarray", <<B, line_length>>, delta_x),
           Container("ndarray", <<B, line_length>>, delta_y),
           Container("ndarray", <<B, 1>>, [b \in 1..B |-> <<delta_psi[b]>>]) >>

\* line.shape[-2] and x.ndim are read first; then the isinstance chain, which has
\* no else branch
batch_proj(x, line) ==
    IF ~HasArrayAttrs(line) THEN Raise("AttributeError")
    ELSE IF Len(line.shape) < 2 THEN Raise("IndexError")
    ELSE IF ~HasArrayAttrs(x) THEN Raise("AttributeError")
    ELSE IF IsTensor(x) THEN Return(batch_proj_torch(x.v, line.v))
    ELSE IF IsNdarray(x) THEN Return(batch_proj_numpy(x.v, line.v))
    ELSE Return(PyNone)

MaxBatch == 2
MaxLine == 2
MaxProjCoord == 1

ProjPoses == {<<px, py, h>> : px \in 0..MaxProjCoord, py \in 0..MaxProjCoord, h \in {0, 3}}
LinePoints == {<<px, py, h>> : px \in 0..MaxProjCoord, py \in 0..1, h \in {0, 1}}

\* a batch of B poses and B polylines of N points: the first element is drawn,
\* element b is the first with the pose turned by b-1 quarter turns and the
\* polyline's points shifted cyclically by b-1 places
ProjBatchX(B, pose) == [b \in 1..B |-> <<pose[1], pose[2], pose[3] + (b - 1)>>]
ProjBatchLine(B, N, l) == [b \in 1..B |-> [n \in 1..N |-> l[((n + b - 2) % N) + 1]]]

InitBatchProj ==
    /\ fn = "batch_proj"
    /\ \E kind \in SupportedKinds, B \in 1..MaxBatch, N \in 1..MaxLine :
         \E pose \in ProjPoses, l \in [1..N -> LinePoints] :
           args = [x |-> Container(kind, <<B, 3>>, ProjBatchX(B, pose)),
                   line |-> Container(kind, <<B, N, 3>>, ProjBatchLine(B, N, l))]
    /\ pc = "call"
    /\ ret = Pending
    /\ out = <<>>
    /\ i = 0

Call_batch_proj ==
    /\ fn = "batch_proj" /\ pc = "call"
    /\ ret' = batch_proj(args.x, args.line)
    /\ pc' = "done"
    /\ UNCHANGED <<fn, args, out, i>>

SpecBatchProj == InitBatchProj /\ [][Call_batch_proj]_vars

\* the selected polyline point of batch element b: nearest to the pose, the
\* lowest index among equidistant points
Nearest(x, line, b) ==
    LET d(n) == SquaredNorm(line[b][n][1] - x[b][1], line[b][n][2] - x[b][2])
    IN  CHOOSE n \in 1..Len(line[b]) :
            /\ \A m \in 1..Len(line[b]) : d(n) <= d(m)
            /\ \A m \in 1..(n - 1) : d(m) > d(n)

\* (ds, dn) of a pose against the point (x0, y0) in the frame of heading theta0
FrenetDs(pose, pt, theta0) ==
    (pose[1] - pt[1]) * Cos(theta0) + (pose[2] - pt[2]) * Sin(theta0)
FrenetDn(pose, pt, theta0) ==
    (-(pose[1] - pt[1])) * Sin(theta0) + (pose[2] - pt[2]) * Cos(theta0)

BatchProjDone == pc = "done" /\ fn = "batch_proj" /\ ret.kind = "return" /\ ret.value # PyNone

\* C3 as stated: ds and dn hold one value per batch element, the offsets of the
\* pose from the selected nearest point in that point's frame (shape [B]), and
\* dyaw has shape [B,1].
C3_OneValuePerBatchElement ==
    BatchProjDone =>
        LET x == args.x.v
            line == args.line.v
            B == Len(x)
        IN  /\ ret.value[1].shape = <<B>>
            /\ ret.value[2].shape = <<B>>
            /\ ret.value[3].shape = <<B, 1>>

\* C3 amended: ds and dn have shape [B,N]: entry [b,n] is the offset of the pose
\* from polyline point n, rotated by the heading of the selected nearest point
\* (lowest index on ties), so the entry at the selected index is the offset from
\* the selected point; dyaw has shape [B,1] and is the wrapped heading difference.
C3_OneValuePerPolylinePoint ==
    BatchProjDone =>
        LET x == args.x.v
            line == args.line.v
            B == Len(x)
            N == Len(line[1])
        IN  /\ ret.value[1].shape = <<B, N>>
            /\ ret.value[2].shape = <<B, N>>
            /\ ret.value[3].shape = <<B, 1>>
            /\ \A b \in 1..B :
                 LET sel == line[b][Nearest(x, line, b)]
                 IN  /\ \A n \in 1..N :
                          /\ ret.value[1].v[b][n] = FrenetDs(x[b], line[b][n], sel[3])
                          /\ ret.value[2].v[b][n] = FrenetDn(x[b], line[b][n], sel[3])
                     /\ ret.value[3].v[b] = <<round_2pi(x[b][3] - sel[3])>>
                     /\ -PI <= ret.value[3].v[b][1] /\ ret.value[3].v[b][1] < PI

\* a batch of two poses against polylines of two equidistant points with
\* different headings, whose far entries differ from the selected ones
C3_Witness ==
    /\ BatchProjDone
    /\ Len(args.x.v) = 2 /\ Len(args.line.v[1]) = 2
    /\ LET x == args.x.v
           line == args.line.v
       IN  /\ SquaredNorm(line[1][1][1] - x[1][1], line[1][1][2] - x[1][2])
                = SquaredNorm(line[1][2][1] - x[1][1], line[1][2][2] - x[1][2])
           /\ line[1][1][3] # line[1][2][3]
           /\ ret.value[1].v[1][1] # ret.value[1].v[1][2]
           /\ Nearest(x, line, 1) = 1


(***************************************************************************)
(* batch_rotate_2D and the pairwise collision metrics.  Lengths are in     *)
(* twentieths of the length unit: offsetX = 1.0 is 20, offsetY = 0.3 is 6, *)
(* and every "/ 2" and "0.5 *" of the source is exact.                     *)
(***************************************************************************)
offsetX == 20
offsetY == 6

\* 0.5 * v, v / 2
Half(v) == v \div 2

\* xy[..., c] at row k: a 1-D xy gives the scalar xy[c], broadcast over the rows
Component(xy, c, k) == IF Len(xy.shape) = 1 THEN xy.v[c] ELSE xy.v[k][c]

\* one row of batch_rotate_2D, the same arithmetic in both branches:
\* x1 = x cos(theta) - y sin(theta) ; y1 = y cos(theta) + x sin(theta)
RotatedRow(x, y, theta) ==
    <<x * Cos(theta) - y * Sin(theta), y * Cos(theta) + x * Sin(theta)>>

RotatedRows(xy, theta) ==
    [k \in 1..Len(theta.v) |->
        RotatedRow(Component(xy, 1, k), Component(xy, 2, k), theta.v[k])]

\* no else branch: any other xy falls off the end of the function
batch_rotate_2D(xy, theta) ==
    IF IsTensor(xy)
    THEN Return(Container("tensor", <<Len(theta.v), 2>>, RotatedRows(xy, theta)))
    ELSE IF IsNdarray(xy)
    THEN Return(Container("ndarray", <<Len(theta.v), 2>>, RotatedRows(xy, theta)))
    ELSE Return(PyNone)

\* torch.linalg.norm / np.linalg.norm of (dx, dy) minus m: the root is kept symbolic
NormMinus(dx, dy, m) == [sqrt_of |-> SquaredNorm(dx, dy), minus |-> m]

PED_PED_collision(p1, p2, S1, S2) ==
    IF IsTensor(p1) THEN
        IF ~IsTensor(p2) THEN Raise(OperandError(p2))
        ELSE Return(Container("tensor", <<Len(p1.v)>>,
                [b \in 1..Len(p1.v) |->
                    NormMinus(p1.v[b][1] - p2.v[b][1], p1.v[b][2] - p2.v[b][2],
                              Half(S1.v[b][1] + S2.v[b][1]))]))
    ELSE IF IsNdarray(p1) THEN
        IF ~IsNdarray(p2) THEN Raise(OperandError(p2))
        ELSE Return(Container("ndarray", <<Len(p1.v)>>,
                [b \in 1..Len(p1.v) |->
                    NormMinus(p1.v[b][1] - p2.v[b][1], p1.v[b][2] - p2.v[b][2],
                              Half(S1.v[b][1] + S2.v[b][1]))]))
    ELSE Raise("NotImplementedError")

\* kron(a, K) of a 1-D a and the four factors K: entry 4(b-1)+j is a[b] * K[j]
Kron4(a, K) == [k \in 1..(4 * Len(a)) |-> a[((k - 1) \div 4) + 1] * K[((k - 1) % 4) + 1]]

\* the largest of the four corner values of batch element b
MaxOverCorners(dis, b) ==
    Max(Max(dis[4 * b - 3], dis[4 * b - 2]), Max(dis[4 * b - 1], dis[4 * b]))

\* torch.min(dis, dim=-1) / np.min(dis, axis=-1) of dis viewed as [B,4]
MinOverCorners(dis, b) ==
    Min(Min(dis[4 * b - 3], dis[4 * b - 2]), Min(dis[4 * b - 1], dis[4 * b]))

\* row k (of 4B) of the arrays both branches build from theta1 on; row k belongs
\* to batch element b = (k-1) div 4 + 1, whose values repeat(4) copies into it:
\*   delta_x1 = batch_rotate_2D(corners, theta1.repeat(4)) + dx
\*   delta_x2 = batch_rotate_2D(delta_x1, -theta2.repeat(4))
\*   dis = maximum(abs(delta_x2[..., 0]) - 0.5 * S2[..., 0].repeat(4),
\*                 abs(delta_x2[..., 1]) - 0.5 * S2[..., 1].repeat(4))
CornerDis(corners, p1, p2, S2, k) ==
    LET b == ((k - 1) \div 4) + 1
        rot1 == RotatedRow(Component(corners, 1, k), Component(corners, 2, k), p1[b][3])
        delta_x1 == <<rot1[1] + (p1[b][1] - p2[b][1]), rot1[2] + (p1[b][2] - p2[b][2])>>
        delta_x2 == RotatedRow(delta_x1[1], delta_x1[2], -p2[b][3])
    IN  Max(Abs(delta_x2[1]) - Half(S2[b][1]), Abs(delta_x2[2]) - Half(S2[b][2]))

\* dis.view(B, 4) and the minimum over the four corners of each batch element
VEH_VEH_FromCorners(kind, corners, p1, p2, S2) ==
    LET B == Len(p1)
        dis == [k \in 1..(4 * B) |-> CornerDis(corners, p1, p2, S2, k)]
    IN  Container(kind, <<B>>, [b \in 1..B |-> MinOverCorners(dis, b)])

\* lines 225-249: corners = torch.stack([cornersX, cornersY], dim=-1), shape [4B,2]
VEH_VEH_torch(p1, p2, S1, S2) ==
    LET B == Len(p1)
        cornersX == Kron4([b \in 1..B |-> Half(S1[b][1] + offsetX)], <<1, 1, -1, -1>>)
        cornersY == Kron4([b \in 1..B |-> Half(S1[b][2] + offsetY)], <<1, -1, 1, -1>>)
        corners == Container("tensor", <<4 * B, 2>>,
                        [k \in 1..(4 * B) |-> <<cornersX[k], cornersY[k]>>])
    IN  VEH_VEH_FromCorners("tensor", corners, p1, p2, S2)

\* lines 252-267: corners = np.concatenate((cornersX, cornersY), axis=-1), the
\* 1-D array of the 4B x values followed by the 4B y values, shape [8B]
VEH_VEH_numpy(p1, p2, S1, S2) ==
    LET B == Len(p1)
        cornersX == Kron4([b \in 1..B |-> Half(S1[b][1] + offsetX)], <<1, 1, -1, -1>>)
        cornersY == Kron4([b \in 1..B |-> Half(S1[b][2] + offsetY)], <<1, -1, 1, -1>>)
        corners == Container("ndarray", <<8 * B>>, cornersX \o cornersY)
    IN  VEH_VEH_FromCorners("ndarray", corners, p1, p2, S2)

\* alpha and return_dis are not read; offsetX and offsetY keep their defaults
VEH_VEH_collision(p1, p2, S1, S2) ==
    IF IsTensor(p1) THEN
        IF ~IsTensor(p2) THEN Raise(OperandError(p2))
        ELSE Return(VEH_VEH_torch(p1.v, p2.v, S1.v, S2.v))
    ELSE IF IsNdarray(p1) THEN
        IF ~IsNdarray(p2) THEN Raise(OperandError(p2))
        ELSE Return(VEH_VEH_numpy(p1.v, p2.v, S1.v, S2.v))
    ELSE Raise("NotImplementedError")

\* both branches: dx = batch_rotate_2D(p2[..., 0:2] - p1[..., 0:2], -theta) and the
\* larger of the two axis gaps, both reduced by S2[..., 0] / 2
VEH_PED_Gaps(kind, p1, p2, S1, S2) ==
    LET B == Len(p1)
        rel == Container(kind, <<B, 2>>,
                    [b \in 1..B |-> <<p2[b][1] - p1[b][1], p2[b][2] - p1[b][2]>>])
        dx == batch_rotate_2D(rel, Container(kind, <<B>>, [b \in 1..B |-> -p1[b][3]])).value
    IN  Container(kind, <<B>>,
            [b \in 1..B |->
                Max(Abs(dx.v[b][1]) - Half(S1[b][1]) - Half(S2[b][1]),
                    Abs(dx.v[b][2]) - Half(S1[b][2]) - Half(S2[b][1]))])

\* the torch branch also builds `mask`, which nothing reads
VEH_PED_collision(p1, p2, S1, S2) ==
    IF IsTensor(p1) THEN
        IF ~IsTensor(p2) THEN Raise(OperandError(p2))
        ELSE Return(VEH_PED_Gaps("tensor", p1.v, p2.v, S1.v, S2.v))
    ELSE IF IsNdarray(p1) THEN
        IF ~IsNdarray(p2) THEN Raise(OperandError(p2))
        ELSE Return(VEH_PED_Gaps("ndarray", p1.v, p2.v, S1.v, S2.v))
    ELSE Raise("NotImplementedError")

PED_VEH_collision(p1, p2, S1, S2) == VEH_PED_collision(p2, p1, S2, S1)

\* --- the agents a caller may pass ------------------------------------------
MaxPos == 2
MaxSize == 2

\* agent 1 on the x axis, agent 2 anywhere on the grid; headings in quarter turns
Agent1Poses == {<<20 * px, 0, h>> : px \in 0..MaxPos, h \in 0..(2 * PI - 1)}
Agent2Poses == {<<20 * px, 20 * py, h>> : px \in 0..MaxPos, py \in 0..MaxPos,
                                         h \in 0..(2 * PI - 1)}
Sizes == {<<20 * l, 20 * w>> : l \in 1..MaxSize, w \in 1..MaxSize}

\* a batch of B pairs: the odd elements are the drawn pair, the even ones the
\* same pair with the two agents exchanged
PairBatch(B, a, c) == [b \in 1..B |-> IF (b % 2) = 1 THEN a ELSE c]

CollisionArgs(kind, B, a1, a2, s1, s2) ==
    [p1 |-> Container(kind, <<B, 3>>, PairBatch(B, a1, a2)),
     p2 |-> Container(kind, <<B, 3>>, PairBatch(B, a2, a1)),
     S1 |-> Container(kind, <<B, 2>>, PairBatch(B, s1, s2)),
     S2 |-> Container(kind, <<B, 2>>, PairBatch(B, s2, s1))]

InitVehVeh ==
    /\ fn = "VEH_VEH_collision"
    /\ \E kind \in SupportedKinds, B \in 1..MaxBatch :
         \E a1 \in Agent1Poses, a2 \in Agent2Poses, s1 \in Sizes, s2 \in Sizes :
           args = CollisionArgs(kind, B, a1, a2, s1, s2)
    /\ pc = "call"
    /\ ret = Pending
    /\ out = <<>>
    /\ i = 0

Call_PED_PED_collision ==
    /\ fn = "PED_PED_collision" /\ pc = "call"
    /\ ret' = PED_PED_collision(args.p1, args.p2, args.S1, args.S2)
    /\ pc' = "done"
    /\ UNCHANGED <<fn, args, out, i>>

Call_VEH_VEH_collision ==
    /\ fn = "VEH_VEH_collision" /\ pc = "call"
    /\ ret' = VEH_VEH_collision(args.p1, args.p2, args.S1, args.S2)
    /\ pc' = "done"
    /\ UNCHANGED <<fn, args, out, i>>

Call_VEH_PED_collision ==
    /\ fn = "VEH_PED_collision" /\ pc = "call"
    /\ ret' = VEH_PED_collision(args.p1, args.p2, args.S1, args.S2)
    /\ pc' = "done"
    /\ UNCHANGED <<fn, args, out, i>>

Call_PED_VEH_collision ==
    /\ fn = "PED_VEH_collision" /\ pc = "call"
    /\ ret' = PED_VEH_collision(args.p1, args.p2, args.S1, args.S2)
    /\ pc' = "done"
    /\ UNCHANGED <<fn, args, out, i>>

Call_batch_rotate_2D ==
    /\ fn = "batch_rotate_2D" /\ pc = "call"
    /\ ret' = batch_rotate_2D(args.xy, args.theta)
    /\ pc' = "done"
    /\ UNCHANGED <<fn, args, out, i>>

SpecVehVeh == InitVehVeh /\ [][Call_VEH_VEH_collision]_vars

\* --- the two footprints in the world frame ---------------------------------
\* half extents along world x and y of a rectangle of size S turned by h quarter
\* turns and widened by (ox, oy)
WorldHalfExtents(S, h, ox, oy) ==
    IF (h % 2) = 0 THEN <<Half(S[1] + ox), Half(S[2] + oy)>>
    ELSE <<Half(S[2] + oy), Half(S[1] + ox)>>

\* vehicle 1's inflated footprint and vehicle 2's footprint touch or overlap
FootprintsOverlap(a1, a2, s1, s2) ==
    LET e1 == WorldHalfExtents(s1, a1[3], offsetX, offsetY)
        e2 == WorldHalfExtents(s2, a2[3], 0, 0)
    IN  /\ Abs(a1[1] - a2[1]) <= e1[1] + e2[1]
        /\ Abs(a1[2] - a2[2]) <= e1[2] + e2[2]

\* some corner of vehicle 1's inflated footprint lies in or on vehicle 2's footprint
SomeCornerInside(a1, a2, s1, s2) ==
    LET e1 == WorldHalfExtents(s1, a1[3], offsetX, offsetY)
        e2 == WorldHalfExtents(s2, a2[3], 0, 0)
    IN  \E sx \in {-1, 1}, sy \in {-1, 1} :
            /\ Abs(a1[1] + sx * e1[1] - a2[1]) <= e2[1]
            /\ Abs(a1[2] + sy * e1[2] - a2[2]) <= e2[2]

VehVehDone == pc = "done" /\ fn = "VEH_VEH_collision" /\ ret.kind = "return"

\* C5 as stated: the result is positive only if the two footprints are disjoint
\* (it is <= 0 whenever they touch or overlap).
C5_PositiveOnlyIfDisjoint ==
    VehVehDone =>
        \A b \in 1..Len(args.p1.v) :
            FootprintsOverlap(args.p1.v[b], args.p2.v[b], args.S1.v[b], args.S2.v[b])
                => ret.value.v[b] <= 0

\* C5 amended: on the tensor path the result is <= 0 exactly when some corner of
\* vehicle 1's inflated footprint lies in or on vehicle 2's footprint; so a result
\* <= 0 implies that the footprints touch or overlap, and not the converse.
C5_NonPositiveIffCornerInside ==
    (VehVehDone /\ IsTensor(args.p1)) =>
        \A b \in 1..Len(args.p1.v) :
            /\ ret.value.v[b] <= 0
                 <=> SomeCornerInside(args.p1.v[b], args.p2.v[b], args.S1.v[b], args.S2.v[b])
            /\ ret.value.v[b] <= 0
                 => FootprintsOverlap(args.p1.v[b], args.p2.v[b], args.S1.v[b], args.S2.v[b])

\* a batch of two on the tensor path: one element with a corner of vehicle 1 in
\* vehicle 2 (result <= 0), one with the footprints apart (result > 0), the two
\* vehicles at right angles
C5_Witness ==
    /\ VehVehDone /\ IsTensor(args.p1)
    /\ Len(args.p1.v) = 2
    /\ (args.p1.v[1][3] % 2) # (args.p2.v[1][3] % 2)
    /\ ret.value.v[1] <= 0
    /\ SomeCornerInside(args.p1.v[1], args.p2.v[1], args.S1.v[1], args.S2.v[1])
    /\ ret.value.v[2] > 0
    /\ ~FootprintsOverlap(args.p1.v[2], args.p2.v[2], args.S1.v[2], args.S2.v[2])


\* --- the array path against the tensor path --------------------------------
CollisionFns ==
    {"PED_PED_collision", "VEH_VEH_collision", "VEH_PED_collision", "PED_VEH_collision"}

InitDualPath ==
    /\ fn \in CollisionFns
    /\ \E kind \in SupportedKinds, B \in 1..MaxBatch :
         \E a1 \in Agent1Poses, a2 \in Agent2Poses, s1 \in Sizes, s2 \in Sizes :
           args = CollisionArgs(kind, B, a1, a2, s1, s2)
    /\ pc = "call"
    /\ ret = Pending
    /\ out = <<>>
    /\ i = 0

NextDualPath ==
    \/ Call_PED_PED_collision
    \/ Call_VEH_VEH_collision
    \/ Call_VEH_PED_collision
    \/ Call_PED_VEH_collision

SpecDualPath == InitDualPath /\ [][NextDualPath]_vars

\* the same numbers in the other container kind
OtherKind(c) == [c EXCEPT !.kind = IF @ = "tensor" THEN "ndarray" ELSE "tensor"]

\* what the called function gives for the same numbers on the other path
OtherPathResult ==
    LET p1 == OtherKind(args.p1)
        p2 == OtherKind(args.p2)
        S1 == OtherKind(args.S1)
        S2 == OtherKind(args.S2)
    IN  CASE fn = "PED_PED_collision" -> PED_PED_collision(p1, p2, S1, S2)
          [] fn = "VEH_VEH_collision" -> VEH_VEH_collision(p1, p2, S1, S2)
          [] fn = "VEH_PED_collision" -> VEH_PED_collision(p1, p2, S1, S2)
          [] fn = "PED_VEH_collision" -> PED_VEH_collision(p1, p2, S1, S2)

PathsAgree ==
    /\ ret.kind = "return" /\ OtherPathResult.kind = "return"
    /\ ret.value.shape = OtherPathResult.value.shape
    /\ ret.value.v = OtherPathResult.value.v

\* C6: for each of the four collision functions the numpy branch and the torch
\* branch give the same result, element for element and of the same shape, on
\* the same numbers.
C6_BranchesAgree ==
    (pc = "done" /\ fn \in CollisionFns) => PathsAgree

\* the three functions other than VEH_VEH_collision do agree on every input
DualPathAgreesExceptVehVeh ==
    (pc = "done" /\ fn \in CollisionFns \ {"VEH_VEH_collision"}) => PathsAgree

\* --- a first argument that is neither tensor nor ndarray -------------------
MaxSample == 2

DispatchFns == CollisionFns \cup {"batch_proj", "batch_rotate_2D"}

\* the numbers of a pose batch [1,3] in a container of the given kind: a list
\* holds them without a shape, a numpy scalar holds the first of them
AsKind(kind, shape, v) ==
    CASE kind \in SupportedKinds -> Container(kind, shape, v)
      [] kind = "list" -> Container("list", <<>>, v)
      [] kind = "npscalar" -> Container("npscalar", <<>>, v[1][1])

DispatchArgs(f, k1, k2, n) ==
    LET pose == << <<20 * n, 0, 1>> >>
        other == << <<20, 20, 0>> >>
        size == << <<40, 20>> >>
    IN  CASE f = "batch_proj" ->
               [x |-> AsKind(k1, <<1, 3>>, pose),
                line |-> Container(k2, <<1, 2, 3>>, << <<other[1], pose[1]>> >>)]
          [] f = "batch_rotate_2D" ->
               [xy |-> AsKind(k1, <<1, 2>>, << <<20 * n, 20>> >>),
                theta |-> Container(k2, <<1>>, <<1>>)]
          [] OTHER ->
               [p1 |-> AsKind(k1, <<1, 3>>, pose),
                p2 |-> Container(k2, <<1, 3>>, other),
                S1 |-> Container(k2, <<1, 2>>, size),
                S2 |-> Container(k2, <<1, 2>>, size)]

\* the first argument of any kind; the other arguments tensors or ndarrays, of
\* the first argument's kind when it is one of the two
InitDispatch ==
    /\ fn \in DispatchFns
    /\ \E k1 \in Kinds, k2 \in SupportedKinds, n \in 0..MaxSample :
         /\ k1 \in SupportedKinds => k2 = k1
         /\ args = DispatchArgs(fn, k1, k2, n)
    /\ pc = "call"
    /\ ret = Pending
    /\ out = <<>>
    /\ i = 0

NextDispatch ==
    \/ Call_batch_proj
    \/ Call_batch_rotate_2D
    \/ Call_PED_PED_collision
    \/ Call_VEH_VEH_collision
    \/ Call_VEH_PED_collision
    \/ Call_PED_VEH_collision

SpecDispatch == InitDispatch /\ [][NextDispatch]_vars

FirstArgument ==
    CASE fn = "batch_proj" -> args.x
      [] fn = "batch_rotate_2D" -> args.xy
      [] OTHER -> args.p1

\* C9: each of the six dispatching functions raises an error when its first
\* argument is neither a numpy array nor a torch tensor; none returns a value.
C9_UnsupportedContainerRaises ==
    (pc = "done" /\ fn \in DispatchFns /\ FirstArgument.kind \notin SupportedKinds)
        => ret.kind = "raise"

\* the four collision functions do raise on such a first argument
CollisionFnsRaise ==
    (pc = "done" /\ fn \in CollisionFns /\ "p1" \in DOMAIN args
        /\ args.p1.kind \notin SupportedKinds)
        => ret.kind = "raise"


(***************************************************************************)
(* Tensors: a shape and one integer per index tuple (1-based).             *)
(***************************************************************************)
RECURSIVE Indices(_)
Indices(shape) ==
    IF shape = <<>> THEN {<<>>}
    ELSE {<<k>> \o r : k \in 1..Head(shape), r \in Indices(Tail(shape))}

\* the tensor of the given shape whose entry at ix is val[ix]
Tensor(shape, val) == [shape |-> shape, data |-> [ix \in Indices(shape) |-> val[ix]]]

ndim(t) == Len(t.shape)

\* t.shape[-k]
ShapeFromEnd(t, k) == t.shape[Len(t.shape) - k + 1]

\* torch.unsqueeze(t, 0)
unsqueeze0(t) ==
    [shape |-> <<1>> \o t.shape,
     data |-> [ix \in Indices(<<1>> \o t.shape) |-> t.data[Tail(ix)]]]

\* t[0]
index0(t) ==
    [shape |-> Tail(t.shape),
     data |-> [ix \in Indices(Tail(t.shape)) |-> t.data[<<1>> \o ix]]]

\* torch.permute(t, (0, 2, 1)) of a tensor of rank 3
permute021(t) ==
    LET shape == <<t.shape[1], t.shape[3], t.shape[2]>>
    IN  [shape |-> shape,
         data |-> [ix \in Indices(shape) |-> t.data[<<ix[1], ix[3], ix[2]>>]]]

\* t[:, :n, :m] of a tensor of rank 3 (a slice stops at the end of the axis)
SliceTopLeft(t, n, m) ==
    Tensor(<<t.shape[1], Min(n, t.shape[2]), Min(m, t.shape[3])>>, t.data)

\* t[:, -1:, :m] of a tensor of rank 3
SliceLastRow(t, m) ==
    LET shape == <<t.shape[1], Min(1, t.shape[2]), Min(m, t.shape[3])>>
    IN  [shape |-> shape,
         data |-> [ix \in Indices(shape) |-> t.data[<<ix[1], t.shape[2], ix[3]>>]]]

\* broadcasting of one axis: equal sizes, or one of them 1
Broadcastable(m, n) == m = n \/ m = 1 \/ n = 1
BroadcastIndex(k, size) == IF size = 1 THEN 1 ELSE k

RECURSIVE Dot(_, _, _)
Dot(u, v, n) == IF n = 0 THEN 0 ELSE u[n] * v[n] + Dot(u, v, n - 1)

\* a @ b of two tensors of rank 3: batched matrix product, batch axis broadcast
matmul(a, b) ==
    IF a.shape[3] # b.shape[2] \/ ~Broadcastable(a.shape[1], b.shape[1])
    THEN Raise("RuntimeError")
    ELSE LET shape == <<Max(a.shape[1], b.shape[1]), a.shape[2], b.shape[3]>>
         IN  Return([shape |-> shape,
                     data |-> [ix \in Indices(shape) |->
                        Dot([k \in 1..a.shape[3] |->
                                a.data[<<BroadcastIndex(ix[1], a.shape[1]), ix[2], k>>]],
                            [k \in 1..a.shape[3] |->
                                b.data[<<BroadcastIndex(ix[1], b.shape[1]), k, ix[3]>>]],
                            a.shape[3])]])

\* a + b of two tensors of rank 3, every axis broadcast
add(a, b) ==
    IF \E d \in 1..3 : ~Broadcastable(a.shape[d], b.shape[d])
    THEN Raise("RuntimeError")
    ELSE LET shape == [d \in 1..3 |-> Max(a.shape[d], b.shape[d])]
         IN  Return([shape |-> shape,
                     data |-> [ix \in Indices(shape) |->
                        a.data[[d \in 1..3 |-> BroadcastIndex(ix[d], a.shape[d])]]
                        + b.data[[d \in 1..3 |-> BroadcastIndex(ix[d], b.shape[d])]]]])

(***************************************************************************)
(* transform_points_tensor(points, transf_matrix)                          *)
(***************************************************************************)

\* the seven assertions, in order; the first that fails raises AssertionError
ValidateShapes_NoSquareCheck(points, transf_matrix) ==
    IF ndim(points) \notin {2, 3} THEN "points should have ndim in [2,3]"
    ELSE IF ndim(transf_matrix) \notin {2, 3} THEN "matrix should have ndim in [2,3]"
    ELSE IF ~(ndim(points) >= ndim(transf_matrix)) THEN "points ndim should be >= than matrix"
    ELSE IF ShapeFromEnd(points, 1) \notin {2, 3} THEN "last points dimension must be 2 or 3"
    ELSE IF ShapeFromEnd(transf_matrix, 1) \notin {3, 4} THEN "last matrix dimension must be 3 or 4"
    ELSE IF ShapeFromEnd(points, 1) # ShapeFromEnd(transf_matrix, 1) - 1
         THEN "points last dim should be one less than matrix"
    ELSE "ok"

ValidateShapes(points, transf_matrix) ==
    IF ndim(points) \notin {2, 3} THEN "points should have ndim in [2,3]"
    ELSE IF ndim(transf_matrix) \notin {2, 3} THEN "matrix should have ndim in [2,3]"
    ELSE IF ~(ndim(points) >= ndim(transf_matrix)) THEN "points ndim should be >= than matrix"
    ELSE IF ShapeFromEnd(points, 1) \notin {2, 3} THEN "last points dimension must be 2 or 3"
    ELSE IF ShapeFromEnd(transf_matrix, 1) # ShapeFromEnd(transf_matrix, 2)
         THEN "matrix should be a square matrix"
    ELSE IF ShapeFromEnd(transf_matrix, 1) \notin {3, 4} THEN "last matrix dimension must be 3 or 4"
    ELSE IF ShapeFromEnd(points, 1) # ShapeFromEnd(transf_matrix, 1) - 1
         THEN "points last dim should be one less than matrix"
    ELSE "ok"

\* the inner _transform with the permute left out
transform_NoPermute(points, transf_matrix) ==
    LET num_dims == transf_matrix.shape[3] - 1
        prod == matmul(points, SliceTopLeft(transf_matrix, num_dims, num_dims))
    IN  IF prod.kind = "raise" THEN prod
        ELSE add(prod.value, SliceLastRow(transf_matrix, num_dims))

\* the inner _transform: both arguments of rank 3
transform(points, transf_matrix) ==
    LET num_dims == transf_matrix.shape[3] - 1
        permuted == permute021(transf_matrix)
        prod == matmul(points, SliceTopLeft(permuted, num_dims, num_dims))
    IN  IF prod.kind = "raise" THEN prod
        ELSE add(prod.value, SliceLastRow(permuted, num_dims))

\* _transform(...)[0]
First(r) == IF r.kind = "raise" THEN r ELSE Return(index0(r.value))

transform_points_tensor(points, transf_matrix) ==
    IF ValidateShapes(points, transf_matrix) # "ok" THEN Raise("AssertionError")
    ELSE IF ndim(points) = 2 /\ ndim(transf_matrix) = 2
         THEN First(transform(unsqueeze0(points), unsqueeze0(transf_matrix)))
    ELSE IF ndim(points) = 3 /\ ndim(transf_matrix) = 3
         THEN transform(points, transf_matrix)
    ELSE IF ndim(points) = 3 /\ ndim(transf_matrix) = 2
         THEN transform(points, unsqueeze0(transf_matrix))
    ELSE Raise("NotImplementedError")

\* --- the shapes a caller may pass -----------------------------------------
MaxRank == 4
MaxLead == 2
MaxDim == 5

\* leading axes: the first of size b, every further one of size n
LeadingDims(k) ==
    IF k = 0 THEN {<<>>}
    ELSE {<<b>> \o [j \in 1..(k - 1) |-> n] : b \in 1..MaxLead, n \in 1..MaxLead}

PointShapes ==
    UNION { {l \o <<f>> : l \in LeadingDims(r - 1), f \in 1..MaxDim} : r \in 1..MaxRank }

MatrixShapes ==
    {<<c>> : c \in 1..MaxDim}
    \cup UNION { {l \o <<rw, c>> : l \in LeadingDims(r - 2),
                                    rw \in 1..MaxDim, c \in 1..MaxDim} : r \in 2..MaxRank }

\* torch.ones(shape)
ones(shape) == [shape |-> shape, data |-> [ix \in Indices(shape) |-> 1]]

InitTransformShapes ==
    /\ fn = "transform_points_tensor"
    /\ \E ps \in PointShapes, ms \in MatrixShapes :
           args = [points_shape |-> ps, matrix_shape |-> ms]
    /\ pc = "call"
    /\ ret = Pending
    /\ out = <<>>
    /\ i = 0

\* the call, on tensors of the drawn shapes
TPT_CallOnShapes ==
    /\ fn = "transform_points_tensor" /\ pc = "call"
    /\ ret' = transform_points_tensor(ones(args.points_shape), ones(args.matrix_shape))
    /\ pc' = "done"
    /\ UNCHANGED <<fn, args, out, i>>

SpecTransformShapes == InitTransformShapes /\ [][TPT_CallOnShapes]_vars

\* the three supported combinations of the docstring, F in {2,3}
IsModeUnbatched(ps, ms) ==
    Len(ps) = 2 /\ Len(ms) = 2 /\ ps[2] \in {2, 3} /\ ms = <<ps[2] + 1, ps[2] + 1>>
IsModeShared(ps, ms) ==
    Len(ps) = 3 /\ Len(ms) = 2 /\ ps[3] \in {2, 3} /\ ms = <<ps[3] + 1, ps[3] + 1>>
IsModePerBatch(ps, ms) ==
    Len(ps) = 3 /\ Len(ms) = 3 /\ ps[3] \in {2, 3} /\ ms = <<ps[1], ps[3] + 1, ps[3] + 1>>

\* the combination of point rank, matrix rank, point last dimension and matrix
\* size is one of the three
RanksAndSizesSupported(ps, ms) ==
    /\ Len(ps) \in {2, 3} /\ Len(ms) \in {2, 3} /\ Len(ps) >= Len(ms)
    /\ ps[Len(ps)] \in {2, 3}
    /\ ms[Len(ms)] = ps[Len(ps)] + 1 /\ ms[Len(ms) - 1] = ps[Len(ps)] + 1

\* C1: in each of the three shape combinations the call returns points of the
\* input's shape; for every other combination of point rank, matrix rank, point
\* last dimension and matrix size it raises before _transform is entered
\* (AssertionError or NotImplementedError, never an error of the arithmetic).
C1_ThreeModesElseError ==
    (pc = "done" /\ fn = "transform_points_tensor" /\ "points_shape" \in DOMAIN args) =>
        LET ps == args.points_shape
            ms == args.matrix_shape
        IN  /\ (IsModeUnbatched(ps, ms) \/ IsModeShared(ps, ms) \/ IsModePerBatch(ps, ms))
                 => (ret.kind = "return" /\ ret.value.shape = ps)
            /\ ~RanksAndSizesSupported(ps, ms)
                 => (ret.kind = "raise"
                     /\ ret.error \in {"AssertionError", "NotImplementedError"})
            /\ ret.kind = "return" => RanksAndSizesSupported(ps, ms)

\* points of rank 2 with a matrix of rank 3 of fitting sizes were refused
C1_Witness ==
    /\ pc = "done" /\ fn = "transform_points_tensor" /\ "points_shape" \in DOMAIN args
    /\ Len(args.points_shape) = 2 /\ Len(args.matrix_shape) = 3
    /\ args.points_shape[2] = 3 /\ args.matrix_shape[2] = 4 /\ args.matrix_shape[3] = 4
    /\ ret.kind = "raise"


\* --- two transforms in sequence -------------------------------------------
MaxPts == 2
MaxCoord == 1
MaxTrans == 1

Feats == {2, 3}

\* F x F blocks: identity, a quarter turn in the xy-plane, a scaling, a shear
LinearBlocks(F) ==
    { [r \in 1..F |-> [c \in 1..F |-> IF r = c THEN 1 ELSE 0]],
      [r \in 1..F |-> [c \in 1..F |->
          IF r = 1 /\ c = 2 THEN -1
          ELSE IF r = 2 /\ c = 1 THEN 1
          ELSE IF r = c /\ r > 2 THEN 1 ELSE 0]],
      [r \in 1..F |-> [c \in 1..F |-> IF r = c THEN 2 ELSE 0]],
      [r \in 1..F |-> [c \in 1..F |-> IF r = c \/ (r = 1 /\ c = F) THEN 1 ELSE 0]] }

Translations(F) == { [r \in 1..F |-> t * r] : t \in 0..MaxTrans }

\* [0,...,0,1], and last rows that are not the affine one
CanonicalLastRow(F) == [c \in 1..(F + 1) |-> IF c = F + 1 THEN 1 ELSE 0]
LastRows(F) ==
    { CanonicalLastRow(F),
      [c \in 1..(F + 1) |-> 1],
      [c \in 1..(F + 1) |-> IF c = F + 1 THEN 2 ELSE 0] }

\* the matrix [[L t], [last]] of shape [F+1, F+1]
Matrix(F, L, t, last) ==
    [shape |-> <<F + 1, F + 1>>,
     data |-> [ix \in Indices(<<F + 1, F + 1>>) |->
                 IF ix[1] = F + 1 THEN last[ix[2]]
                 ELSE IF ix[2] = F + 1 THEN t[ix[1]]
                 ELSE L[ix[1]][ix[2]]]]

Matrices(F) ==
    { Matrix(F, L, t, last) : L \in LinearBlocks(F), t \in Translations(F), last \in LastRows(F) }

\* points [N,F]: a first point, every further row the one before moved by (1,...,1)
PointRows(F) ==
    { [shape |-> <<N, F>>,
       data |-> [ix \in Indices(<<N, F>>) |-> p[ix[2]] + (ix[1] - 1)]] :
      N \in 1..MaxPts, p \in [1..F -> 0..MaxCoord] }

LastRowOf(M) == [c \in 1..M.shape[2] |-> M.data[<<M.shape[1], c>>]]

\* A @ B of two square matrices
MatProd(A, B) == index0(matmul(unsqueeze0(A), unsqueeze0(B)).value)

InitTransformCompose ==
    /\ fn = "transform_points_tensor"
    /\ \E F \in Feats : \E P \in PointRows(F), A \in Matrices(F), B \in Matrices(F) :
           args = [points |-> P, A |-> A, B |-> B]
    /\ pc = "first"
    /\ ret = Pending
    /\ out = <<>>
    /\ i = 0

\* transform_points_tensor(P, B)
TPT_CallFirst ==
    /\ fn = "transform_points_tensor" /\ pc = "first"
    /\ ret' = transform_points_tensor(args.points, args.B)
    /\ pc' = IF ret'.kind = "return" THEN "second" ELSE "done"
    /\ UNCHANGED <<fn, args, out, i>>

\* transform_points_tensor(<the first result>, A)
TPT_CallSecond ==
    /\ fn = "transform_points_tensor" /\ pc = "second"
    /\ ret' = transform_points_tensor(ret.value, args.A)
    /\ pc' = "done"
    /\ UNCHANGED <<fn, args, out, i>>

NextTransformCompose ==
    \/ TPT_CallFirst
    \/ TPT_CallSecond

SpecTransformCompose == InitTransformCompose /\ [][NextTransformCompose]_vars

\* the sequential result equals the transform by the product A @ B
SequentialEqualsProduct ==
    ret = transform_points_tensor(args.points, MatProd(args.A, args.B))

\* C2 as stated: for any two accepted matrices A and B, transforming by B and
\* then by A equals transforming by A @ B.
C2_ComposeAnyMatrices ==
    (pc = "done" /\ "A" \in DOMAIN args) => SequentialEqualsProduct

\* C2 amended: the same, for every A and every B whose last row is [0,...,0,1].
C2_ComposeAffineB ==
    (pc = "done" /\ "A" \in DOMAIN args
        /\ LastRowOf(args.B) = CanonicalLastRow(args.B.shape[1] - 1))
    => (ret.kind = "return" /\ SequentialEqualsProduct)

\* two transforms that do not commute, B affine and A with a last row that is
\* not, applied in sequence to more than one point
C2_Witness ==
    /\ pc = "done" /\ "A" \in DOMAIN args /\ ret.kind = "return"
    /\ LastRowOf(args.B) = CanonicalLastRow(args.B.shape[1] - 1)
    /\ LastRowOf(args.A) # CanonicalLastRow(args.A.shape[1] - 1)
    /\ MatProd(args.A, args.B) # MatProd(args.B, args.A)
    /\ args.points.shape[1] >= 2
    /\ ret.value # args.points
    /\ SequentialEqualsProduct


(***************************************************************************)
(* calc_distance_map(road_flag, max_dis)                                   *)
(***************************************************************************)
MaxW == 3
MaxH == 2
MaxDis == 4

Cells(W, H) == (1..W) \X (1..H)

\* road_flag[W,H]: strict 0/1 masks, and the max_dis the caller passes
DistanceMapInputs ==
    UNION { { [W |-> W, H |-> H, road_flag |-> g, max_dis |-> m] :
                g \in [Cells(W, H) -> {0, 1}], m \in 1..MaxDis } :
            W \in 1..MaxW, H \in 1..MaxH }

\* out = torch.zeros_like(road_flag, dtype=torch.float)
zeros_like(a) == [c \in Cells(a.W, a.H) |-> 0]

\* out[road_flag == 0] = max_dis ; out[road_flag == 1] = 0
MaskAssign(o, a) ==
    LET o1 == [c \in DOMAIN o |-> IF a.road_flag[c] = 0 THEN a.max_dis ELSE o[c]]
    IN  [c \in DOMAIN o |-> IF a.road_flag[c] = 1 THEN 0 ELSE o1[c]]

\* the relaxation step with max in place of min
Relax_Max(cell, neighbour) == Max(cell, neighbour + 1)

\* the relaxation step of every sweep: torch.min(cell, neighbour + 1)
Relax(cell, neighbour) == Min(cell, neighbour + 1)

\* one iteration too few
NumIterations_OneLess(max_dis) == max_dis - 2

\* for i in range(max_dis-1)
NumIterations(max_dis) == max_dis - 1

\* out[..., 1:, :] = torch.min(out[..., 1:, :], out[..., :-1, :]+1)
Sweep1(o) == [c \in DOMAIN o |->
    IF c[1] >= 2 THEN Relax(o[c], o[<<c[1] - 1, c[2]>>]) ELSE o[c]]
\* out[..., :-1, :] = torch.min(out[..., :-1, :], out[..., 1:, :]+1)
Sweep2(o, W) == [c \in DOMAIN o |->
    IF c[1] <= W - 1 THEN Relax(o[c], o[<<c[1] + 1, c[2]>>]) ELSE o[c]]
\* out[..., :, 1:] = torch.min(out[..., :, 1:], out[..., :, :-1]+1)
Sweep3(o) == [c \in DOMAIN o |->
    IF c[2] >= 2 THEN Relax(o[c], o[<<c[1], c[2] - 1>>]) ELSE o[c]]
\* out[..., :, :-1] = torch.min(out[..., :, :-1], out[..., :, 1:]+1)
Sweep4(o, H) == [c \in DOMAIN o |->
    IF c[2] <= H - 1 THEN Relax(o[c], o[<<c[1], c[2] + 1>>]) ELSE o[c]]

InitDistanceMap ==
    /\ fn = "calc_distance_map"
    /\ args \in DistanceMapInputs
    /\ out = zeros_like(args)
    /\ i = 0
    /\ pc = "L440"
    /\ ret = Pending

\* lines 440-442: the two masked assignments, then the loop is entered or skipped
DM_InitField ==
    /\ fn = "calc_distance_map" /\ pc = "L440"
    /\ out' = MaskAssign(out, args)
    /\ i' = 0
    /\ pc' = IF 0 < NumIterations(args.max_dis) THEN "L443" ELSE "L448"
    /\ UNCHANGED <<fn, args, ret>>

DM_Sweep1 ==
    /\ fn = "calc_distance_map" /\ pc = "L443"
    /\ out' = Sweep1(out)
    /\ pc' = "L444"
    /\ UNCHANGED <<fn, args, ret, i>>

DM_Sweep2 ==
    /\ fn = "calc_distance_map" /\ pc = "L444"
    /\ out' = Sweep2(out, args.W)
    /\ pc' = "L445"
    /\ UNCHANGED <<fn, args, ret, i>>

DM_Sweep3 ==
    /\ fn = "calc_distance_map" /\ pc = "L445"
    /\ out' = Sweep3(out)
    /\ pc' = "L446"
    /\ UNCHANGED <<fn, args, ret, i>>

\* line 446 ends the loop body: the next i, or the loop is left
DM_Sweep4 ==
    /\ fn = "calc_distance_map" /\ pc = "L446"
    /\ out' = Sweep4(out, args.H)
    /\ i' = i + 1
    /\ pc' = IF i + 1 < NumIterations(args.max_dis) THEN "L443" ELSE "L448"
    /\ UNCHANGED <<fn, args, ret>>

\* return out
DM_Return ==
    /\ fn = "calc_distance_map" /\ pc = "L448"
    /\ ret' = Return(out)
    /\ pc' = "done"
    /\ UNCHANGED <<fn, args, out, i>>

NextDistanceMap ==
    \/ DM_InitField
    \/ DM_Sweep1
    \/ DM_Sweep2
    \/ DM_Sweep3
    \/ DM_Sweep4
    \/ DM_Return

SpecDistanceMap == InitDistanceMap /\ [][NextDistanceMap]_vars

\* the field has been initialised (every state from line 443 on)
DM_Initialised == fn = "calc_distance_map" /\ pc # "L440"

DM_InRange(o, max_dis) == \A c \in DOMAIN o : 0 <= o[c] /\ o[c] <= max_dis

\* a step taken by one of the four sweeps leaves no cell above its old value
DM_SweepDoesNotIncrease ==
    (pc \in {"L443", "L444", "L445", "L446"}) => (\A c \in DOMAIN out : out'[c] <= out[c])

\* C7: after initialisation, after every sweep of every iteration and in the
\* returned field, every cell lies in [0, max_dis]; and no sweep increases a cell.
C7_FieldInRange ==
    /\ [](DM_Initialised => DM_InRange(out, args.max_dis))
    /\ []((DM_Initialised /\ ret.kind = "return") => DM_InRange(ret.value, args.max_dis))
    /\ [][DM_SweepDoesNotIncrease]_vars

\* a sweep of the last iteration has lowered some cell, and the field was returned
C7_Witness ==
    /\ pc = "done" /\ ret.kind = "return"
    /\ args.max_dis >= 3
    /\ \E c \in DOMAIN ret.value : 0 < ret.value[c] /\ ret.value[c] < args.max_dis

\* Manhattan distance from cell c to the nearest cell with road_flag = 1,
\* saturated at max_dis (max_dis when there is no such cell)
SaturatedManhattan(a, c) ==
    LET road == {d \in DOMAIN a.road_flag : a.road_flag[d] = 1}
        dist(d) == Abs(c[1] - d[1]) + Abs(c[2] - d[2])
    IN  IF road = {} THEN a.max_dis
        ELSE LET best == CHOOSE d \in road : \A e \in road : dist(d) <= dist(e)
             IN  Min(a.max_dis, dist(best))

\* C10: the returned field is the exact saturated 4-neighbour distance transform
C10_ExactDistance ==
    (pc = "done" /\ fn = "calc_distance_map") =>
        \A c \in DOMAIN ret.value : ret.value[c] = SaturatedManhattan(args, c)

\* a returned field with a cell at distance max_dis - 1 that needed every iteration
C10_Witness ==
    /\ pc = "done" /\ fn = "calc_distance_map"
    /\ args.max_dis >= 3
    /\ \E c \in DOMAIN ret.value :
          /\ ret.value[c] = args.max_dis - 1
          /\ SaturatedManhattan(args, c) = args.max_dis - 1
    /\ \E c \in DOMAIN ret.value : ret.value[c] = args.max_dis

====
